---- MODULE Spec2Model ----
(***************************************************************************)
(* scripts/download_import_cldr.py: download the CLDR archive, verify its  *)
(* SHA-1 digest, extract it, mirror the seed XML files listed on an index  *)
(* page, then run the importer.  The model's state is the local           *)
(* filesystem the script reads and writes, the locals of main() and       *)
(* get_seed_files(), and a per-run log of the external operations         *)
(* (urlretrieve, os.remove, shutil.rmtree, extractall, check_call).       *)
(* Exceptions modelled: the checksum RuntimeError, a failing urlretrieve   *)
(* (which may leave no file or a truncated one), a page that does not     *)
(* parse, a link without text, and a non-zero exit of the importer.       *)
(* Local filesystem errors (permissions, full disk) are not modelled.     *)
(***************************************************************************)
EXTENDS Naturals, Sequences, FiniteSets

VARIABLES
    zip,        \* content of zip_path ("absent" when there is no such file)
    common,     \* content of common_path ("absent" when it is no directory)
    seedDir,    \* whether seed_path exists
    html,       \* the cached index page at html_path
    seedFiles,  \* content of seed_path/<name> for every name
    pc,         \* position of the running script
    changed,    \* main(): changed
    seed_xmls,  \* get_seed_files(): seed_xmls
    idx,        \* get_seed_files(): position of the for loop in seed_xmls
    log,        \* external operations of the current run, in order
    error,      \* the exception that ended the current run ("none" if none)
    prev,       \* how the previous run on this filesystem ended
    fs0         \* the filesystem as the current run found it

vars == <<zip, common, seedDir, html, seedFiles, pc, changed, seed_xmls, idx,
          log, error, prev, fs0>>

----------------------------------------------------------------------------
(* Bounds *)

\* longest index page, in anchors
MaxAnchors == 2

----------------------------------------------------------------------------
(* Module-level configuration and the paths main() builds *)

FILESUM == "01ade6c2d1f358e63c2ab6e2861d4caa7114ff45"

zip_path == "cldr/core-31.0.1.zip"
cldr_path == "cldr/core-31.0.1"
common_path == "cldr/core-31.0.1/common"
html_path == "cldr/seed-31.0.1.html"
seed_path == "cldr/core-31.0.1/seed/main"

\* link texts, as the character sequences the filter inspects
A_XML == <<"a", ".", "x", "m", "l">>
B_TXT == <<"b", ".", "t", "x", "t">>
C_XML == <<"c", ".", "x", "m", "l">>
README_XML == <<"r", ".", "X", "M", "L">>
Names == {A_XML, B_TXT, C_XML, README_XML}

\* link.text of an anchor without text (ElementTree gives None)
NoneText == <<>>

\* the literal of the filter 'xml' in link.text
XML == <<"x", "m", "l">>

\* the element path findall() is given, and one that it does not match
LI_A == "./body/ul/li/a"
TD_A == "./body/table/tr/td/a"

----------------------------------------------------------------------------
(* Contents *)

\* archive contents: the released core.zip, and bytes that are not it
ZipContents == {"core", "corrupt", "garbled", "partial"}

\* SHA-1 of an archive content, lines 87-94
Digest(c) ==
    CASE c = "core" -> FILESUM
      [] c = "corrupt" -> "da39a3ee5e6b4b0d3255bfef95601890afd80709"
      [] c = "garbled" -> "2fd4e1c67a2d28fced849ee1bb76e7391b93eb12"
      [] OTHER -> "de9f2c7fd25e1b3afad3e85a0bd17d9b100db4b3"

Anchors == [path : {LI_A}, text : Names \cup {NoneText}]
               \cup [path : {TD_A}, text : {C_XML}]

RECURSIVE SeqsUpTo(_, _)
SeqsUpTo(S, n) ==
    IF n = 0 THEN {<<>>}
    ELSE LET shorter == SeqsUpTo(S, n - 1)
         IN shorter \cup {Append(s, x) : s \in {t \in shorter : Len(t) = n - 1}, x \in S}

NoFile == [exists |-> FALSE, wellformed |-> FALSE, anchors |-> <<>>]
Malformed == [exists |-> TRUE, wellformed |-> FALSE, anchors |-> <<>>]
Page(as) == [exists |-> TRUE, wellformed |-> TRUE, anchors |-> as]

\* what the server may answer for SEED_URL
RemotePages == {Page(as) : as \in SeqsUpTo(Anchors, MaxAnchors)} \cup {Malformed}

Ev(op, path, name) == [op |-> op, path |-> path, name |-> name]

TypeOK ==
    /\ zip \in ZipContents \cup {"absent"}
    /\ common \in {"absent", "old", "core"}
    /\ seedDir \in BOOLEAN
    /\ html \in RemotePages \cup {NoFile}
    /\ seedFiles \in [Names -> {"none", "old", "new", "partial"}]
    /\ pc \in {"check", "body", "gate", "seed", "parse", "loop", "delegate",
               "done", "failed"}
    /\ changed \in BOOLEAN
    /\ idx \in 1..(MaxAnchors + 1)
    /\ prev \in {"none", "done", "failed"}

----------------------------------------------------------------------------
(* The script's pure decisions *)

\* is_good_file() as it would be if a digest mismatch returned False
is_good_file_retry(content) ==
    IF content = "absent" THEN "False"
    ELSE IF Digest(content) # FILESUM THEN "False"
    ELSE "True"

\* is_good_file() as it would be if any existing file were accepted
is_good_file_lax(content) ==
    IF content = "absent" THEN "False" ELSE "True"

\* is_good_file(), lines 83-99: "False" for no file, "raise" for a digest
\* that differs from FILESUM, "True" otherwise
is_good_file(content) ==
    IF content = "absent" THEN "False"
    ELSE IF Digest(content) # FILESUM THEN "raise"
    ELSE "True"

\* os.path.isfile(zip_path), line 112
isfile(content) == content # "absent"

\* os.path.isdir(common_path), lines 119-120
isdir(content) == content # "absent"

\* line 119 as it would be without the isdir test
NeedsExtract_changed_only(ch, content) == ch

\* line 119: if changed or not os.path.isdir(common_path)
NeedsExtract(ch, content) == ch \/ ~isdir(content)

\* z.extractall(cldr_path), lines 125-126: the tree the archive holds
Extracted(content) == content

\* s in t, for character sequences
Contains(s, t) ==
    \E k \in 0..Len(t) :
        /\ k + Len(s) <= Len(t)
        /\ SubSeq(t, k + 1, k + Len(s)) = s

Lower(c) ==
    CASE c = "X" -> "x"
      [] c = "M" -> "m"
      [] c = "L" -> "l"
      [] OTHER -> c

\* line 72 as it would be with a case-insensitive test
SeedFilter_nocase(text) == Contains(XML, [k \in 1..Len(text) |-> Lower(text[k])])

\* line 72: 'xml' in link.text
SeedFilter(text) == Contains(XML, text)

\* line 71: html.findall('./body/ul/li/a')
findall(page) == SelectSeq(page.anchors, LAMBDA a : a.path = LI_A)

\* line 72: the list comprehension raises TypeError on a link.text of None
FilterRaises(links) == \E k \in 1..Len(links) : links[k].text = NoneText

RECURSIVE Texts(_)
Texts(links) ==
    IF links = <<>> THEN <<>>
    ELSE <<links[1].text>> \o Texts(Tail(links))

\* line 72: seed_xmls
SeedXmls(links) == SelectSeq(Texts(links), SeedFilter)

\* line 78 as it would be without the exists test
NeedsFetch_always(files, name) == TRUE

\* line 78: if not os.path.exists(xml_path)
NeedsFetch(files, name) == files[name] = "none"

\* line 66 as it would be without the exists test
IndexCached_never(page) == FALSE

\* line 66: os.path.exists(html_path)
IndexCached(page) == page.exists

\* lines 130-133 as they would be if common_path were passed
DelegateArgv_common == <<"scripts/import_cldr.py", common_path>>

\* lines 130-133: the arguments after sys.executable
DelegateArgv == <<"scripts/import_cldr.py", cldr_path>>

----------------------------------------------------------------------------
(* Initial states: any filesystem a first run may find, main() at line 110 *)

Snapshot == [zip |-> zip, common |-> common, html |-> html, seedFiles |-> seedFiles]

Init ==
    /\ zip \in {"absent", "core", "corrupt"}
    /\ common \in {"absent", "old"}
    /\ seedDir \in BOOLEAN
    /\ html \in RemotePages \cup {NoFile}
    /\ seedFiles \in [Names -> {"none", "old"}]
    /\ ~seedDir => \A n \in Names : seedFiles[n] = "none"
    /\ pc = "check"
    /\ changed = FALSE
    /\ seed_xmls = <<>>
    /\ idx = 1
    /\ log = <<>>
    /\ error = "none"
    /\ prev = "none"
    /\ fs0 = Snapshot

Raise(e) ==
    /\ pc' = "failed"
    /\ error' = e

----------------------------------------------------------------------------
(* main(), lines 102-133 *)

\* line 110: while not is_good_file(zip_path)
CheckFile ==
    /\ pc = "check"
    /\ LET r == is_good_file(zip)
       IN IF r = "raise" THEN Raise("ChecksumMismatch")
          ELSE /\ pc' = IF r = "True" THEN "gate" ELSE "body"
               /\ error' = error
    /\ UNCHANGED <<zip, common, seedDir, html, seedFiles, changed, seed_xmls,
                   idx, log, prev, fs0>>

\* lines 111-116: the loop body; urlretrieve either stores what the server
\* sent or raises, leaving no file or a truncated one
Download ==
    /\ pc = "body"
    /\ LET removed == IF isfile(zip) THEN <<Ev("remove", zip_path, <<>>)>> ELSE <<>>
           fetch == Ev("urlretrieve", zip_path, <<>>)
       IN /\ log' = log \o removed \o <<fetch>>
          /\ \/ /\ zip' \in {"core", "garbled"}
                /\ changed' = TRUE
                /\ pc' = "check"
                /\ error' = error
             \/ /\ zip' \in {"absent", "partial"}
                /\ changed' = changed
                /\ Raise("TransportError")
    /\ UNCHANGED <<common, seedDir, html, seedFiles, seed_xmls, idx, prev, fs0>>

\* lines 117-126: delete the old checkout and extract, or skip both
Extract ==
    /\ pc = "gate"
    /\ IF NeedsExtract(changed, common)
       THEN /\ log' = log
                      \o (IF isdir(common) THEN <<Ev("rmtree", common_path, <<>>)>> ELSE <<>>)
                      \o <<Ev("extractall", cldr_path, <<>>)>>
            /\ common' = Extracted(zip)
       ELSE UNCHANGED <<log, common>>
    /\ pc' = "seed"
    /\ UNCHANGED <<zip, seedDir, html, seedFiles, changed, seed_xmls, idx,
                   error, prev, fs0>>

----------------------------------------------------------------------------
(* get_seed_files(), lines 60-80 *)

\* lines 61-68: make seed_path, fetch the index page unless it is cached
SeedIndex ==
    /\ pc = "seed"
    /\ seedDir' = TRUE
    /\ IF IndexCached(html)
       THEN /\ pc' = "parse"
            /\ UNCHANGED <<html, log, error>>
       ELSE /\ log' = Append(log, Ev("urlretrieve", html_path, <<>>))
            /\ \/ /\ html' \in RemotePages
                  /\ pc' = "parse"
                  /\ error' = error
               \/ /\ html' \in {NoFile, Malformed}
                  /\ Raise("TransportError")
    /\ UNCHANGED <<zip, common, seedFiles, changed, seed_xmls, idx, prev, fs0>>

\* lines 70-72: parse the page, collect the link texts, filter them
SeedParse ==
    /\ pc = "parse"
    /\ IF ~html.wellformed
       THEN /\ Raise("ParseError")
            /\ UNCHANGED seed_xmls
       ELSE IF FilterRaises(findall(html))
       THEN /\ Raise("TypeError")
            /\ UNCHANGED seed_xmls
       ELSE /\ seed_xmls' = SeedXmls(findall(html))
            /\ pc' = IF seed_xmls' = <<>> THEN "delegate" ELSE "loop"
            /\ error' = error
    /\ idx' = 1
    /\ UNCHANGED <<zip, common, seedDir, html, seedFiles, changed, log, prev, fs0>>

\* lines 74-80: one iteration of the for loop
SeedLoop ==
    /\ pc = "loop"
    /\ LET xml_name == seed_xmls[idx]
           next == IF idx = Len(seed_xmls) THEN "delegate" ELSE "loop"
       IN IF NeedsFetch(seedFiles, xml_name)
          THEN /\ log' = Append(log, Ev("urlretrieve", seed_path, xml_name))
               /\ \/ /\ seedFiles' = [seedFiles EXCEPT ![xml_name] = "new"]
                     /\ pc' = next
                     /\ idx' = idx + 1
                     /\ error' = error
                  \/ /\ \E c \in {"none", "partial"} :
                            seedFiles' = [seedFiles EXCEPT ![xml_name] = c]
                     /\ idx' = idx
                     /\ Raise("TransportError")
          ELSE /\ pc' = next
               /\ idx' = idx + 1
               /\ UNCHANGED <<log, seedFiles, error>>
    /\ UNCHANGED <<zip, common, seedDir, html, changed, seed_xmls, prev, fs0>>

----------------------------------------------------------------------------
(* lines 130-133: subprocess.check_call raises on a non-zero exit *)

Delegate ==
    /\ pc = "delegate"
    /\ log' = Append(log, Ev("check_call", Head(DelegateArgv), Tail(DelegateArgv)))
    /\ \/ /\ pc' = "done"
          /\ error' = error
       \/ Raise("CalledProcessError")
    /\ UNCHANGED <<zip, common, seedDir, html, seedFiles, changed, seed_xmls,
                   idx, prev, fs0>>

\* the script is started again on the filesystem the last run left
Rerun ==
    /\ pc \in {"done", "failed"}
    /\ prev' = pc
    /\ pc' = "check"
    /\ changed' = FALSE
    /\ seed_xmls' = <<>>
    /\ idx' = 1
    /\ log' = <<>>
    /\ error' = "none"
    /\ fs0' = Snapshot
    /\ UNCHANGED <<zip, common, seedDir, html, seedFiles>>

Next ==
    \/ CheckFile
    \/ Download
    \/ Extract
    \/ SeedIndex
    \/ SeedParse
    \/ SeedLoop
    \/ Delegate
    \/ Rerun

Spec == Init /\ [][Next]_vars

----------------------------------------------------------------------------
(* Reading the log of the current run *)

Events(op, path) == {k \in 1..Len(log) : log[k].op = op /\ log[k].path = path}

ZipFetches == Events("urlretrieve", zip_path)
ZipRemoves == Events("remove", zip_path)
TreeRemoves == Events("rmtree", common_path)
Extractions == Events("extractall", cldr_path)
IndexFetches == Events("urlretrieve", html_path)
SeedFetches == Events("urlretrieve", seed_path)
NetworkRequests == {k \in 1..Len(log) : log[k].op = "urlretrieve"}
DelegateCalls == {k \in 1..Len(log) : log[k].op = "check_call"}

\* the seed files fetched so far in this run
Fetched == {log[k].name : k \in SeedFetches}

\* main() is past line 126 and has raised nothing
PastExtract == pc \in {"seed", "parse", "loop", "delegate", "done"}

\* get_seed_files() has returned
SeedReturned == pc \in {"delegate", "done"} \/ DelegateCalls # {}

----------------------------------------------------------------------------
(* Claims *)

\* C1: once main() is past the verify/fetch loop and the extraction step
\* without an error, the archive exists with a digest equal to FILESUM and
\* the extraction directory exists, whatever the run found on disk and
\* whatever the server sent.
C1_ArchiveVerifiedAndExtracted ==
    PastExtract =>
        /\ isfile(zip)
        /\ Digest(zip) = FILESUM
        /\ isdir(common)

C1_Witness ==
    /\ pc = "seed"
    /\ fs0.zip = "absent"
    /\ fs0.common = "old"
    /\ ZipFetches # {}
    /\ common = "core"

\* C2: a run that starts with an archive whose digest does not match has,
\* when it ends, deleted that archive and fetched a fresh copy exactly once.
C2_SelfHealing ==
    (fs0.zip = "corrupt" /\ pc \in {"done", "failed"}) =>
        /\ Cardinality(ZipRemoves) = 1
        /\ Cardinality(ZipFetches) = 1

\* C3: a check that finds the archive present with a digest other than
\* FILESUM ends the run with the checksum-mismatch error, after which the run
\* has extracted nothing, mirrored nothing and not invoked the delegate; a
\* check that finds no archive raises nothing and enters the loop body.
C3_MismatchIsFatal ==
    /\ [](error = "ChecksumMismatch" =>
            /\ pc = "failed"
            /\ TreeRemoves = {} /\ Extractions = {}
            /\ IndexFetches = {} /\ SeedFetches = {}
            /\ DelegateCalls = {}
            /\ common = fs0.common /\ html = fs0.html /\ seedFiles = fs0.seedFiles)
    /\ [][(pc = "check" /\ isfile(zip) /\ Digest(zip) # FILESUM) =>
            (pc' = "failed" /\ error' = "ChecksumMismatch" /\ log' = log)]_vars
    /\ [][(pc = "check" /\ ~isfile(zip)) =>
            (pc' = "body" /\ error' = "none")]_vars

C3_Witness ==
    /\ error = "ChecksumMismatch"
    /\ zip = "garbled"
    /\ Cardinality(ZipFetches) = 1

\* C4: a run that follows a run which completed successfully makes no
\* network request: it fetches neither the archive, nor the index page, nor
\* any seed file.
C4_SecondRunOffline ==
    prev = "done" => NetworkRequests = {}

C4_Witness ==
    /\ prev = "done"
    /\ pc = "done"
    /\ Len(seed_xmls) = 2
    /\ NetworkRequests = {}

\* C5: in a run that got past the verify/fetch loop, the archive is
\* extracted exactly when it was fetched in this run or the extraction
\* directory was missing; when neither is the case nothing is deleted or
\* written under the extraction directory, and an extraction over an existing
\* directory is preceded by the deletion of that directory.
C5_ExtractionGating ==
    PastExtract =>
        /\ (Extractions # {}) <=> (ZipFetches # {} \/ fs0.common = "absent")
        /\ Cardinality(Extractions) <= 1
        /\ Extractions = {} => (TreeRemoves = {} /\ common = fs0.common)
        /\ Extractions # {} =>
              /\ common = "core"
              /\ (TreeRemoves # {}) <=> (fs0.common # "absent")
              /\ \A r \in TreeRemoves : \A x \in Extractions : r < x

C5_Witness ==
    /\ pc = "seed"
    /\ fs0.zip = "core"
    /\ fs0.common = "absent"
    /\ Extractions # {}
    /\ ZipFetches = {}

C5_WitnessSkip ==
    /\ pc = "seed"
    /\ fs0.zip = "core"
    /\ fs0.common = "old"
    /\ Extractions = {}

\* the link texts that contain "xml", written out
XmlNames == {A_XML, C_XML}

\* the link texts of the cached index page
LinkTexts == {html.anchors[k].text : k \in 1..Len(html.anchors)}

\* every anchor of the cached index page sits at body/ul/li/a
AllAtListPath == \A k \in 1..Len(html.anchors) : html.anchors[k].path = LI_A

\* the names the for loop has gone through
Handled == {seed_xmls[k] : k \in 1..(idx - 1)}

\* C6: for an index page whose anchors all sit at body/ul/li/a, once
\* get_seed_files has returned, the names it fetched or found present are
\* exactly the link texts that contain "xml" (case-sensitive), each of them
\* exists under the mirror directory, the ones fetched are those that were
\* missing, and at no point is a name without that substring fetched.
C6_SeedFilter ==
    /\ AllAtListPath => Fetched \subseteq XmlNames
    /\ (SeedReturned /\ AllAtListPath) =>
          /\ Handled = LinkTexts \cap XmlNames
          /\ \A n \in LinkTexts \cap XmlNames : seedFiles[n] # "none"
          /\ Fetched = {n \in LinkTexts \cap XmlNames : fs0.seedFiles[n] = "none"}

C6_Witness ==
    /\ pc = "done"
    /\ html.anchors = <<[path |-> LI_A, text |-> A_XML],
                        [path |-> LI_A, text |-> README_XML]>>
    /\ Fetched = {A_XML}
    /\ seedFiles[README_XML] = "none"

\* C7: a seed file that exists under the mirror directory when the run
\* reaches it is not fetched and keeps its content, no seed file is fetched
\* twice in a run, and the index page is fetched only when no cached copy
\* exists, at most once per run.
C7_NoRedownload ==
    /\ \A n \in Names :
          fs0.seedFiles[n] # "none" =>
              (n \notin Fetched /\ seedFiles[n] = fs0.seedFiles[n])
    /\ \A j \in SeedFetches : \A k \in SeedFetches :
          log[j].name = log[k].name => j = k
    /\ Cardinality(IndexFetches) <= 1
    /\ IndexFetches # {} => ~fs0.html.exists
    /\ fs0.html.exists => html = fs0.html

C7_Witness ==
    /\ pc = "done"
    /\ fs0.seedFiles[A_XML] = "old"
    /\ seed_xmls = <<A_XML, C_XML>>
    /\ Fetched = {C_XML}
    /\ seedFiles[A_XML] = "old"

C7_WitnessTwice ==
    /\ pc = "done"
    /\ seed_xmls = <<A_XML, A_XML>>
    /\ Fetched = {A_XML}
    /\ IndexFetches # {}

Phase(e) ==
    CASE e.op = "remove" -> 1
      [] e.op = "urlretrieve" /\ e.path = zip_path -> 1
      [] e.op = "rmtree" -> 2
      [] e.op = "extractall" -> 2
      [] e.op = "urlretrieve" /\ e.path # zip_path -> 3
      [] OTHER -> 4

\* C8: the operations of a run occur in the order archive fetch, extraction,
\* seed mirroring, delegate; the delegate is invoked at most once, with the
\* extraction root as its only argument, only after the seed mirror has
\* finished; a finished run has invoked it exactly when no earlier step
\* raised, and a run whose delegate exits non-zero ends in failure.
C8_DelegateOrdering ==
    /\ \A j \in 1..Len(log) : \A k \in 1..Len(log) :
          j < k => Phase(log[j]) <= Phase(log[k])
    /\ Cardinality(DelegateCalls) <= 1
    /\ \A d \in DelegateCalls :
          /\ log[d].name = <<cldr_path>>
          /\ \A x \in Extractions : log[d].name = <<log[x].path>>
          /\ idx = Len(seed_xmls) + 1
          /\ \A k \in 1..Len(seed_xmls) : seedFiles[seed_xmls[k]] # "none"
          /\ isfile(zip) /\ Digest(zip) = FILESUM /\ isdir(common)
    /\ pc \in {"done", "failed"} =>
          ((DelegateCalls # {}) <=> error \in {"none", "CalledProcessError"})
    /\ pc = "done" <=> (DelegateCalls # {} /\ error = "none")
    /\ error = "CalledProcessError" => pc = "failed"

C8_Witness ==
    /\ pc = "failed"
    /\ error = "CalledProcessError"
    /\ ZipFetches # {}
    /\ Extractions # {}
    /\ SeedFetches # {}
    /\ DelegateCalls = {Len(log)}

\* C9: in one run the archive is fetched at most once, and the loop body is
\* entered only before any fetch: the check that follows a fetch either
\* passes or ends the run.
C9_BoundedFetch ==
    /\ Cardinality(ZipFetches) <= 1
    /\ pc = "body" => (ZipFetches = {} /\ ~changed)
    /\ (pc = "check" /\ changed) => is_good_file(zip) \in {"True", "raise"}

C9_Witness ==
    /\ pc = "gate"
    /\ changed
    /\ Cardinality(ZipFetches) = 1

\* C10: the loop body runs only when there is no archive file, so the script
\* never deletes the archive, and an archive that a run found on disk still
\* has the same content whenever and however that run ends.
C10_ArchiveNeverDeleted ==
    /\ pc = "body" => ~isfile(zip)
    /\ ZipRemoves = {}
    /\ isfile(fs0.zip) => zip = fs0.zip

C10_Witness ==
    /\ pc = "failed"
    /\ error = "ChecksumMismatch"
    /\ fs0.zip = "corrupt"
    /\ zip = "corrupt"
    /\ log = <<>>

====
